---- MODULE Spec2Model ----
(***************************************************************************)
(* acemagic-ledctl: the frame codec and serial transport (ledctl/core),    *)
(* the one-shot built-in mode path (core/setmode.py) and the pattern loops *)
(* (ledctl/patterns) as one state machine of a single ledctl process.      *)
(* Time is counted in milliseconds on the time.monotonic() clock.          *)
(***************************************************************************)
EXTENDS Integers, Sequences, FiniteSets, TLC

(* ------------------------------ bounds -------------------------------- *)
\* brightness / speed arguments are drawn from 0..MaxLevelIn
MaxLevelIn == 6
\* integer mode arguments are drawn from 0..MaxModeIn, and WideMode
MaxModeIn == 6
\* an integer mode that does not fit one byte
WideMode == 256
\* frames one pattern session may send before the model stops it
MaxSends == 3
\* blocking-write stalls the environment may cause in one session
MaxStalls == 1
\* a stall lasts StallTicks nominal ticks and one millisecond
StallTicks == 2
\* time.sleep(dt) may return up to MaxOversleep ms late
MaxOversleep == 1
\* calls made on one LedCtl object
MaxCalls == 4
\* the --period override tried for breathered, in ms
PeriodOverride == 100
\* the inter-byte delay a caller gives instead of the default, in ms
DelayGiven == 2
\* the reading of time.monotonic() when the process starts, in ms
StartClock == 7
\* processes the host runs in all (pids 1..MaxProcs)
MaxProcs == 3
\* process-management failures (a failed `ps`, an EPERM of os.kill) on the host
MaxPmFail == 1

(* ------------------------- program constants -------------------------- *)
IB_DELAY_DEFAULT == 5
FRAME_HEADER == 250
BYTE_MASK == 255
FRAME_LEN == 5
stillblue_TICK == 20
stillblue_ib_delay == 1
stillblue_speed == 1
alarm_TICK == 650
alarm_ib_delay == 5
alarm_level == 5

MODE == [RAINBOW |-> 1, BREATH |-> 2, CYCLE |-> 3, OFF |-> 4, AUTO |-> 5]

BUILTIN_MODES ==
    [rainbow |-> MODE.RAINBOW, breathing |-> MODE.BREATH, cycle |-> MODE.CYCLE,
     off |-> MODE.OFF, auto |-> MODE.AUTO]

\* a table that is not inverted (the human level sent as the wire value)
LEVEL_TO_WIRE_plain == (1 :> 1) @@ (2 :> 2) @@ (3 :> 3) @@ (4 :> 4) @@ (5 :> 5)

\* Human 1..5 -> wire 0x05..0x01 (inverted)
LEVEL_TO_WIRE == (1 :> 5) @@ (2 :> 4) @@ (3 :> 3) @@ (4 :> 2) @@ (5 :> 1)

\* a preset table whose fastest selector has the longest tick
PRESETS_unordered ==
    (1 :> <<1, 4, 5000>>) @@ (2 :> <<2, 3, 4000>>) @@ (3 :> <<3, 2, 3000>>) @@
    (4 :> <<4, 1, 1800>>) @@ (5 :> <<5, 1, 5400>>)

\* user s -> (device_speed, brightness, period in ms)
PRESETS ==
    (1 :> <<1, 4, 5000>>) @@ (2 :> <<2, 3, 4000>>) @@ (3 :> <<3, 2, 3000>>) @@
    (4 :> <<4, 1, 1800>>) @@ (5 :> <<5, 1, 1350>>)

(* ----------------------------- values --------------------------------- *)
None == [t |-> "none", v |-> 0]
IntV(n) == [t |-> "int", v |-> n]
StrV(s) == [t |-> "str", v |-> s]

Ok(v) == [ok |-> TRUE, v |-> v, err |-> "none"]
Raise(e) == [ok |-> FALSE, v |-> 0, err |-> e]

\* str.lower() on the names the model passes in
Lower(s) ==
    CASE s = "CYCLE" -> "cycle"
      [] s = "Off" -> "off"
      [] OTHER -> s

\* Python's a & b on non-negative integers, bit by bit
RECURSIVE BitAnd(_, _)
BitAnd(a, b) ==
    IF a = 0 \/ b = 0 THEN 0
    ELSE (a % 2) * (b % 2) + 2 * BitAnd(a \div 2, b \div 2)

(* --------------------------- frame codec ------------------------------ *)
\* a checksum that forgets the mode byte
checksum_nomode(mode, bw, sw) == BitAnd(FRAME_HEADER + bw + sw, BYTE_MASK)

checksum(mode, bw, sw) == BitAnd(FRAME_HEADER + mode + bw + sw, BYTE_MASK)

\* a build_frame that clamps a bad level instead of rejecting it
build_frame_clamp(mode, bright_h, speed_h) ==
    LET cl(x) == IF x < 1 THEN 1 ELSE IF x > 5 THEN 5 ELSE x
        bw == LEVEL_TO_WIRE[cl(bright_h)]
        sw == LEVEL_TO_WIRE[cl(speed_h)]
    IN  Ok(<<FRAME_HEADER, mode, bw, sw, checksum(mode, bw, sw)>>)

build_frame(mode, bright_h, speed_h) ==
    IF bright_h \notin DOMAIN LEVEL_TO_WIRE \/ speed_h \notin DOMAIN LEVEL_TO_WIRE
    THEN Raise("ValueError")
    ELSE LET bw == LEVEL_TO_WIRE[bright_h]
             sw == LEVEL_TO_WIRE[speed_h]
         IN  Ok(<<FRAME_HEADER, mode, bw, sw, checksum(mode, bw, sw)>>)

\* ledctl.core.setmode.resolve_mode: an int passes through, a name is looked up
resolve_mode(mode) ==
    IF mode.t = "int" THEN Ok(mode.v)
    ELSE LET key == Lower(mode.v)
         IN  IF key \in DOMAIN BUILTIN_MODES THEN Ok(BUILTIN_MODES[key])
             ELSE Raise("SystemExit")

\* find_port(): the first discovered port or None
find_port(ports) == IF Len(ports) > 0 THEN StrV(ports[1]) ELSE None

\* a resolver that asks discovery first and falls back to the argument
port_or_find_discover(port, ports) == IF Len(ports) > 0 THEN find_port(ports) ELSE port

\* `port or find_port()`
port_or_find(port, ports) == IF port.t = "str" THEN port ELSE find_port(ports)

(* ------------------------------ state --------------------------------- *)
VARIABLES
    args,       \* the call: prog, mode, brightness, speed, port, period, ports
    pc,         \* the statement the process is at
    result,     \* "running", "returned", the exception raised, or the killing signal
    exc,        \* the exception being propagated through a finally / __exit__
    mode,       \* the resolved mode byte
    lv,         \* <<brightness, speed>> handed to build_frame
    frame,      \* the frame being sent, <<>> when none was built
    i,          \* index (1..5) of the frame byte being sent
    dev,        \* the port path chosen (dev / self.port)
    tick,       \* the loop's nominal tick, ms
    ib,         \* the inter-byte delay in use, ms
    ser,        \* srl / LedCtl.ser: "None" or "Serial"
    devOpen,    \* the OS holds the serial device open for this process
    opens,      \* serial.Serial(...) calls that succeeded
    closes,     \* Serial.close() calls executed by the program
    trace,      \* write / flush / sleep events of the frame being sent
    wire,       \* every byte written to the device
    now,        \* time.monotonic()
    nxt,        \* the loop's next deadline
    start,      \* the clock reading the deadline was first set from (-1: not yet)
    ticks,      \* deadline advances done
    dt,         \* nxt - time.monotonic() as last computed
    sends,      \* frames completely sent
    sinceWait,  \* frames completely sent since the last deadline sleep
    stalls,     \* blocking-write stalls so far
    intrAt,     \* pc at which KeyboardInterrupt was first raised ("none")
    termAt,     \* pc at which SIGTERM arrived ("none")
    failAt,     \* the write or flush that failed: op, byte index k, bytes on the wire
    procs,      \* the host's process table: pid -> command line and process state
    wiz         \* the wizard: its UI locals, the loops it sees, what it last did

inV == <<args>>
tabV == <<procs>>
wizV == <<wiz>>
ctlV == <<pc, result, exc>>
locV == <<mode, lv, frame, i, dev, tick, ib>>
serV == <<ser, devOpen, opens, closes>>
obsV == <<trace, wire>>
clkV == <<now, nxt, start, ticks, dt>>
cntV == <<sends, sinceWait, stalls>>
sigV == <<intrAt, termAt, failAt>>
vars == <<inV, tabV, wizV, ctlV, locV, serV, obsV, clkV, cntV, sigV>>

Levels == 0..MaxLevelIn
ModeInts == (0..MaxModeIn) \cup {WideMode}
ModeNames == DOMAIN BUILTIN_MODES \cup {"CYCLE", "Off", "bogus"}
\* --mode-num of a pattern: absent, an undefined byte, a value wider than a byte
ModeNums == {None, IntV(MaxModeIn), IntV(WideMode)}
PortGiven == "/dev/ttyUSB0"
PortFound == "/dev/ttyUSB1"
\* <<port argument, what discovery would return>>
PortCases == {<<None, <<>> >>, <<None, <<PortFound>> >>, <<StrV(PortGiven), <<PortFound>> >>}

OneShotProgs == {"set_builtin_mode", "send_frame_one_shot"}
PatternProgs == {"stillblue", "alarm", "breathered"}

Call(prog, m, b, s, pcase, period) ==
    [prog |-> prog, mode |-> m, brightness |-> b, speed |-> s,
     port |-> pcase[1], ports |-> pcase[2], period |-> period,
     delay |-> IB_DELAY_DEFAULT]

\* ib_delay / -d: left at its default, or given; it is given in calls that
\* name the port and, for a pattern, use neither --mode-num nor --period
Delays(c) ==
    IF c.port.t = "str" /\ c.period.t = "none" /\
       (c.prog \in PatternProgs => c.mode.t = "none")
    THEN {IB_DELAY_DEFAULT, DelayGiven}
    ELSE {IB_DELAY_DEFAULT}

Calls ==
    UNION {{[c EXCEPT !.delay = d] : d \in Delays(c)} : c \in
    {Call("set_builtin_mode", m, b, s, p, None) :
        m \in {StrV(n) : n \in ModeNames} \cup {IntV(k) : k \in ModeInts},
        b \in Levels, s \in Levels, p \in PortCases}
    \cup
    {Call("send_frame_one_shot", IntV(k), b, s, p, None) :
        k \in ModeInts, b \in Levels, s \in Levels, p \in PortCases}
    \cup
    {Call("stillblue", m, b, 0, p, None) :
        m \in ModeNums, b \in Levels, p \in PortCases}
    \cup
    {Call("alarm", m, 0, 0, p, None) :
        m \in ModeNums, p \in PortCases}
    \cup
    {Call("breathered", m, 0, s, p, per) :
        m \in ModeNums, s \in Levels, p \in PortCases,
        per \in {None, IntV(PeriodOverride)}}
    }

Pids == 1..MaxProcs

\* a slot of the process table no process has used yet
NoProc ==
    [cmd |-> <<>>, st |-> "free", pids |-> {}, termTo |-> {}, surv |-> {},
     killTo |-> {}, ret |-> -1, pmFail |-> FALSE, res |-> "none"]

\* no wizard is on the screen
NoWizard ==
    [pc |-> "none", port_idx |-> 0, name_idx |-> 0, bright |-> 0, speed |-> 0,
     idx |-> 0, dtr |-> FALSE, rts |-> FALSE, pattern_running |-> FALSE,
     applied |-> "none", loops |-> {}, log |-> <<>>]

\* no write or flush of the process has failed
NoFail == [op |-> "none", k |-> 0, wlen |-> 0]
\* write / flush of byte k (0-based) failed with w bytes on the wire
Failure(op, k, w) == [op |-> op, k |-> k, wlen |-> w]

Entry(prog) ==
    CASE prog = "set_builtin_mode" -> "sbm_resolve"
      [] prog = "send_frame_one_shot" -> "os_port"
      [] OTHER -> "run"

Init ==
    /\ args \in Calls
    /\ pc = Entry(args.prog)
    /\ result = "running"
    /\ exc = "none"
    /\ mode = IF args.prog = "send_frame_one_shot" THEN args.mode.v ELSE 0
    /\ lv = <<args.brightness, args.speed>>
    /\ frame = <<>>
    /\ i = 1
    /\ dev = None
    /\ tick = 0
    /\ ib = IF args.prog \in OneShotProgs THEN args.delay ELSE IB_DELAY_DEFAULT
    /\ ser = "None"
    /\ devOpen = FALSE
    /\ opens = 0
    /\ closes = 0
    /\ trace = <<>>
    /\ wire = <<>>
    /\ now = StartClock
    /\ nxt = 0
    /\ start = -1
    /\ ticks = 0
    /\ dt = 0
    /\ sends = 0
    /\ sinceWait = 0
    /\ stalls = 0
    /\ intrAt = "none"
    /\ termAt = "none"
    /\ failAt = NoFail
    /\ procs = [p \in Pids |-> NoProc]
    /\ wiz = NoWizard

Ev(op, k, v) == [op |-> op, i |-> k, v |-> v]

\* the process ends: the call returns, or the exception leaves it
Finish(res) == pc' = "done" /\ result' = res


(* ---------------- set_builtin_mode / send_frame_one_shot --------------- *)
\* setmode.py: mode_byte = resolve_mode(mode)
SbmResolve ==
    /\ pc = "sbm_resolve"
    /\ LET r == resolve_mode(args.mode)
       IN  IF r.ok
           THEN /\ mode' = r.v
                /\ pc' = "sbm_check"
                /\ UNCHANGED <<result>>
           ELSE /\ Finish(r.err)
                /\ UNCHANGED <<mode>>
    /\ UNCHANGED <<inV, tabV, wizV, exc, lv, frame, i, dev, tick, ib, serV, obsV, clkV, cntV, sigV>>

\* setmode.py: the 1..5 check in front of send_frame_one_shot
SbmCheck ==
    /\ pc = "sbm_check"
    /\ IF args.brightness \notin {1, 2, 3, 4, 5} \/ args.speed \notin {1, 2, 3, 4, 5}
       THEN Finish("SystemExit")
       ELSE pc' = "os_port" /\ UNCHANGED <<result>>
    /\ UNCHANGED <<inV, tabV, wizV, exc, locV, serV, obsV, clkV, cntV, sigV>>

\* core.py: dev = port or find_port(); if not dev: raise SystemExit
OsPort ==
    /\ pc = "os_port"
    /\ LET d == port_or_find(args.port, args.ports)
       IN  IF d.t = "none"
           THEN Finish("SystemExit") /\ UNCHANGED <<dev>>
           ELSE dev' = d /\ pc' = "os_build" /\ UNCHANGED <<result>>
    /\ UNCHANGED <<inV, tabV, wizV, exc, mode, lv, frame, i, tick, ib, serV, obsV, clkV, cntV, sigV>>

\* core.py: frame = build_frame(mode, brightness, speed)
OsBuild ==
    /\ pc = "os_build"
    /\ LET r == build_frame(mode, args.brightness, args.speed)
       IN  IF r.ok
           THEN frame' = r.v /\ pc' = "os_open" /\ UNCHANGED <<result>>
           ELSE Finish(r.err) /\ UNCHANGED <<frame>>
    /\ UNCHANGED <<inV, tabV, wizV, exc, mode, lv, i, dev, tick, ib, serV, obsV, clkV, cntV, sigV>>

\* core.py: srl = serial.Serial(dev, ...), which the OS may refuse
OsOpen ==
    /\ pc = "os_open"
    /\ \/ /\ ser' = "Serial"
          /\ devOpen' = TRUE
          /\ opens' = opens + 1
          /\ pc' = "os_dtr"
          /\ UNCHANGED <<result, closes>>
       \/ /\ Finish("SerialException")
          /\ UNCHANGED <<serV>>
    /\ UNCHANGED <<inV, tabV, wizV, exc, locV, obsV, clkV, cntV, sigV>>

\* core.py: srl.dtr = dtr, ahead of the try; the ioctl may fail
OsDtr ==
    /\ pc = "os_dtr"
    /\ \/ pc' = "os_rts" /\ UNCHANGED <<result>>
       \/ Finish("SerialException")
    /\ UNCHANGED <<inV, tabV, wizV, exc, locV, serV, obsV, clkV, cntV, sigV>>

\* core.py: srl.rts = rts, ahead of the try; the ioctl may fail
OsRts ==
    /\ pc = "os_rts"
    /\ \/ pc' = "os_write" /\ i' = 1 /\ trace' = <<>> /\ UNCHANGED <<result>>
       \/ Finish("SerialException") /\ UNCHANGED <<i, trace>>
    /\ UNCHANGED <<inV, tabV, wizV, exc, mode, lv, frame, dev, tick, ib, serV, wire, clkV, cntV, sigV>>

\* a driver that tries the failed byte again
OnIOError_retry(at) == at

\* where a failed write / flush goes: the finally clause of the one-shot call,
\* LedCtl.__exit__ of the with statement around the pattern loop
OnIOError(at) == IF at \in {"os_write", "os_flush"} THEN "os_finally" ELSE "exit"

\* the step after a byte's write when a driver forgets the flush
AfterWrite_noflush(at) == IF at = "os_write" THEN "os_sleep" ELSE "wf_sleep"

\* the step after a byte's write: its flush
AfterWrite(at) == IF at = "os_write" THEN "os_flush" ELSE "wf_flush"

\* core.py: srl.write(bytes([b])): bytes() rejects a value outside 0..255,
\* and the write may fail
OsWrite ==
    /\ pc = "os_write"
    /\ IF frame[i] \notin 0..BYTE_MASK
       THEN /\ exc' = "ValueError"
            /\ pc' = "os_finally"
            /\ UNCHANGED <<obsV, failAt>>
       ELSE \/ /\ wire' = Append(wire, frame[i])
               /\ trace' = Append(trace, Ev("write", i, frame[i]))
               /\ pc' = AfterWrite(pc)
               /\ UNCHANGED <<exc, failAt>>
            \/ /\ exc' = "SerialException"
               /\ failAt' = Failure("write", i - 1, Len(wire))
               /\ pc' = OnIOError(pc)
               /\ UNCHANGED <<obsV>>
    /\ UNCHANGED <<inV, tabV, wizV, result, locV, serV, clkV, cntV, intrAt, termAt>>

\* core.py: srl.flush(), which may fail
OsFlush ==
    /\ pc = "os_flush"
    /\ \/ /\ trace' = Append(trace, Ev("flush", i, 0))
          /\ pc' = "os_sleep"
          /\ UNCHANGED <<exc, failAt>>
       \/ /\ exc' = "SerialException"
          /\ failAt' = Failure("flush", i - 1, Len(wire))
          /\ pc' = OnIOError(pc)
          /\ UNCHANGED <<trace>>
    /\ UNCHANGED <<inV, tabV, wizV, result, locV, serV, wire, clkV, cntV, intrAt, termAt>>

\* core.py: time.sleep(ib_delay), then the next byte or the end of the loop
OsSleep ==
    /\ pc = "os_sleep"
    /\ trace' = Append(trace, Ev("sleep", i, ib))
    /\ IF i = FRAME_LEN
       THEN pc' = "os_finally" /\ UNCHANGED <<i>>
       ELSE pc' = "os_write" /\ i' = i + 1
    /\ UNCHANGED <<inV, tabV, wizV, result, exc, mode, lv, frame, dev, tick, ib, serV, wire, clkV, cntV, sigV>>

\* core.py: finally: srl.close(), then return or re-raise
OsFinally ==
    /\ pc = "os_finally"
    /\ devOpen' = FALSE
    /\ closes' = closes + 1
    /\ Finish(IF exc = "none" THEN "returned" ELSE exc)
    /\ UNCHANGED <<inV, tabV, wizV, exc, locV, ser, opens, obsV, clkV, cntV, sigV>>

\* statements of send_frame_one_shot inside its try
OsTryPcs == {"os_write", "os_flush", "os_sleep"}

\* KeyboardInterrupt in the one-shot call: inside the try the finally runs,
\* anywhere else the exception leaves the call as it is
OsInterrupt ==
    /\ args.prog \in OneShotProgs
    /\ pc \notin {"done", "os_finally"}
    /\ intrAt' = pc
    /\ IF pc \in OsTryPcs
       THEN exc' = "KeyboardInterrupt" /\ pc' = "os_finally" /\ UNCHANGED <<result>>
       ELSE Finish("KeyboardInterrupt") /\ UNCHANGED <<exc>>
    /\ UNCHANGED <<inV, tabV, wizV, locV, serV, obsV, clkV, cntV, termAt, failAt>>


(* --------------------------- pattern loops ----------------------------- *)
mode_or(mode_num, default) == IF mode_num.t = "none" THEN default ELSE mode_num.v

\* stillblue.run: RAINBOW at the given brightness, speed fixed, 50 Hz
stillblue_params(a) ==
    [mode |-> mode_or(a.mode, MODE.RAINBOW),
     lv |-> <<a.brightness, stillblue_speed>>,
     tick |-> stillblue_TICK, ib |-> stillblue_ib_delay]

\* alarm.run: CYCLE at brightness 5, speed 5, every 0.65 s
alarm_params(a) ==
    [mode |-> mode_or(a.mode, MODE.CYCLE),
     lv |-> <<alarm_level, alarm_level>>,
     tick |-> alarm_TICK, ib |-> alarm_ib_delay]

\* breathered.run: _PRESETS.get(speed, _PRESETS[1]) and the period override
breathered_params(a) ==
    LET preset == IF a.speed \in DOMAIN PRESETS THEN PRESETS[a.speed] ELSE PRESETS[1]
    IN  [mode |-> mode_or(a.mode, MODE.BREATH),
         lv |-> <<preset[2], preset[1]>>,
         tick |-> IF a.period.t = "none" THEN preset[3] ELSE a.period.v,
         ib |-> IB_DELAY_DEFAULT]

\* the parameters of each pattern's run(); `_ignored` is breathered's **_ignored
run_params ==
    [stillblue |-> {"port", "baud", "dtr", "rts", "brightness", "mode_num"},
     alarm |-> {"port", "baud", "dtr", "rts", "mode_num"},
     breathered |-> {"port", "baud", "dtr", "rts", "speed", "period", "mode_num",
                     "_ignored"}]

\* _filter_kwargs_for_run: the keyword arguments main hands to run(); ns.delay
\* becomes ib_delay only when run() has a parameter of that name
filter_kwargs_for_run(pattern, ns) ==
    [mode |-> ns.mode, brightness |-> ns.brightness, speed |-> ns.speed,
     port |-> ns.port, ports |-> ns.ports, period |-> ns.period,
     ib_delay |-> IF "ib_delay" \in run_params[pattern] THEN IntV(ns.delay) ELSE None]

\* the head of run(): mode, frame levels, tick and the LedCtl's ib_delay; no
\* run() has an ib_delay parameter, each writes the LedCtl's delay itself
PatternSetup ==
    /\ pc = "run"
    /\ LET kw == filter_kwargs_for_run(args.prog, args)
           p == CASE args.prog = "stillblue" -> stillblue_params(kw)
                  [] args.prog = "alarm" -> alarm_params(kw)
                  [] OTHER -> breathered_params(kw)
       IN  /\ mode' = p.mode
           /\ lv' = p.lv
           /\ tick' = p.tick
           /\ ib' = p.ib
    /\ pc' = "ctl_init"
    /\ UNCHANGED <<inV, tabV, wizV, result, exc, frame, i, dev, serV, obsV, clkV, cntV, sigV>>

\* LedCtl.__init__: self.port = port or find_port(); SystemExit without one
LedCtlInit ==
    /\ pc = "ctl_init"
    /\ LET d == port_or_find(args.port, args.ports)
       IN  IF d.t = "none"
           THEN Finish("SystemExit") /\ UNCHANGED <<dev>>
           ELSE dev' = d /\ pc' = "enter" /\ UNCHANGED <<result>>
    /\ UNCHANGED <<inV, tabV, wizV, exc, mode, lv, frame, i, tick, ib, serV, obsV, clkV, cntV, sigV>>

\* an open() that opens whether or not a connection is held
NeedsOpen_always(s) == TRUE

\* LedCtl.open(): `if self.ser is None:`
NeedsOpen(s) == s = "None"

\* LedCtl.__enter__ -> open(): serial.Serial(...) when no connection is held
LedCtlOpen ==
    /\ pc = "enter"
    /\ IF NeedsOpen(ser)
       THEN \/ /\ ser' = "Serial"
               /\ devOpen' = TRUE
               /\ opens' = opens + 1
               /\ pc' = "open_dtr"
               /\ UNCHANGED <<result, closes>>
            \/ /\ Finish("SerialException")
               /\ UNCHANGED <<serV>>
       ELSE /\ pc' = IF args.prog = "breathered" THEN "send" ELSE "clock0"
            /\ UNCHANGED <<result, serV>>
    /\ UNCHANGED <<inV, tabV, wizV, exc, locV, obsV, clkV, cntV, sigV>>

\* LedCtl.open(): self.ser.dtr = self.dtr; a failure leaves __enter__
OpenDtr ==
    /\ pc = "open_dtr"
    /\ \/ pc' = "open_rts" /\ UNCHANGED <<result>>
       \/ Finish("SerialException")
    /\ UNCHANGED <<inV, tabV, wizV, exc, locV, serV, obsV, clkV, cntV, sigV>>

\* LedCtl.open(): self.ser.rts = self.rts; then the with body starts
OpenRts ==
    /\ pc = "open_rts"
    /\ \/ /\ pc' = IF args.prog = "breathered" THEN "send" ELSE "clock0"
          /\ UNCHANGED <<result>>
       \/ Finish("SerialException")
    /\ UNCHANGED <<inV, tabV, wizV, exc, locV, serV, obsV, clkV, cntV, sigV>>

\* nxt = time.monotonic() (stillblue, alarm), or after the first frame
\* nxt = time.monotonic() + tick (breathered)
Clock0 ==
    /\ pc = "clock0"
    /\ start' = now
    /\ IF args.prog = "breathered"
       THEN nxt' = now + tick /\ ticks' = 1 /\ pc' = "readclock"
       ELSE nxt' = now /\ ticks' = 0 /\ pc' = "send"
    /\ UNCHANGED <<inV, tabV, wizV, result, exc, locV, serV, obsV, now, dt, cntV, sigV>>

\* a loop that steps the brightness from one tick to the next
SetModeOnce_stepping ==
    /\ pc = "send"
    /\ sends < MaxSends
    /\ LET r == build_frame(mode, IF sends = 0 THEN lv[1] ELSE 1 + (lv[1] % 5), lv[2])
       IN  IF r.ok
           THEN /\ frame' = r.v
                /\ i' = 1
                /\ trace' = <<>>
                /\ pc' = "wf_write"
                /\ UNCHANGED <<exc>>
           ELSE /\ exc' = r.err
                /\ pc' = "exit"
                /\ UNCHANGED <<frame, i, trace>>
    /\ UNCHANGED <<inV, tabV, wizV, result, mode, lv, dev, tick, ib, serV, wire, clkV, cntV, sigV>>

\* LedCtl.set_mode_once -> _write_frame: frame = build_frame(...)
SetModeOnce ==
    /\ pc = "send"
    /\ sends < MaxSends
    /\ LET r == build_frame(mode, lv[1], lv[2])
       IN  IF r.ok
           THEN /\ frame' = r.v
                /\ i' = 1
                /\ trace' = <<>>
                /\ pc' = "wf_write"
                /\ UNCHANGED <<exc>>
           ELSE /\ exc' = r.err
                /\ pc' = "exit"
                /\ UNCHANGED <<frame, i, trace>>
    /\ UNCHANGED <<inV, tabV, wizV, result, mode, lv, dev, tick, ib, serV, wire, clkV, cntV, sigV>>

\* how long a blocking write may hold the loop up, ms
Stall == StallTicks * tick + 1

\* LedCtl._write_frame: self.ser.write(bytes([byte])); the write may block
\* for a long time, and it may fail
WfWrite ==
    /\ pc = "wf_write"
    /\ IF frame[i] \notin 0..BYTE_MASK
       THEN /\ exc' = "ValueError"
            /\ pc' = "exit"
            /\ UNCHANGED <<obsV, now, stalls, failAt>>
       ELSE \/ /\ wire' = Append(wire, frame[i])
               /\ trace' = Append(trace, Ev("write", i, frame[i]))
               /\ pc' = AfterWrite(pc)
               /\ UNCHANGED <<exc, now, stalls, failAt>>
            \/ /\ stalls < MaxStalls
               /\ stalls' = stalls + 1
               /\ now' = now + Stall
               /\ wire' = Append(wire, frame[i])
               /\ trace' = Append(trace, Ev("write", i, frame[i]))
               /\ pc' = AfterWrite(pc)
               /\ UNCHANGED <<exc, failAt>>
            \/ /\ exc' = "SerialException"
               /\ failAt' = Failure("write", i - 1, Len(wire))
               /\ pc' = OnIOError(pc)
               /\ UNCHANGED <<obsV, now, stalls>>
    /\ UNCHANGED <<inV, tabV, wizV, result, locV, serV, nxt, start, ticks, dt, sends, sinceWait,
                   intrAt, termAt>>

\* LedCtl._write_frame: self.ser.flush(), which may fail
WfFlush ==
    /\ pc = "wf_flush"
    /\ \/ /\ trace' = Append(trace, Ev("flush", i, 0))
          /\ pc' = "wf_sleep"
          /\ UNCHANGED <<exc, failAt>>
       \/ /\ exc' = "SerialException"
          /\ failAt' = Failure("flush", i - 1, Len(wire))
          /\ pc' = OnIOError(pc)
          /\ UNCHANGED <<trace>>
    /\ UNCHANGED <<inV, tabV, wizV, result, locV, serV, wire, clkV, cntV, intrAt, termAt>>

\* where the loop goes when set_mode_once returns
AfterSend == IF args.prog = "breathered" /\ start = -1 THEN "clock0" ELSE "advance"

\* LedCtl._write_frame: time.sleep(self.ib_delay), then the next byte or return
WfSleep ==
    /\ pc = "wf_sleep"
    /\ trace' = Append(trace, Ev("sleep", i, ib))
    /\ now' = now + ib
    /\ IF i = FRAME_LEN
       THEN /\ sends' = sends + 1
            /\ sinceWait' = sinceWait + 1
            /\ pc' = AfterSend
            /\ UNCHANGED <<i>>
       ELSE /\ pc' = "wf_write"
            /\ i' = i + 1
            /\ UNCHANGED <<sends, sinceWait>>
    /\ UNCHANGED <<inV, tabV, wizV, result, exc, mode, lv, frame, dev, tick, ib, serV, wire,
                   nxt, start, ticks, dt, stalls, sigV>>

\* a deadline recomputed from the clock
NextDeadline_fromNow(deadline, clock, t) == clock + t

\* nxt += tick
NextDeadline(deadline, clock, t) == deadline + t

Advance ==
    /\ pc = "advance"
    /\ nxt' = NextDeadline(nxt, now, tick)
    /\ ticks' = ticks + 1
    /\ pc' = "readclock"
    /\ UNCHANGED <<inV, tabV, wizV, result, exc, locV, serV, obsV, now, start, dt, cntV, sigV>>

\* dt = nxt - time.monotonic(); if dt > 0: sleep, else send at once
ReadClock ==
    /\ pc = "readclock"
    /\ dt' = nxt - now
    /\ pc' = IF nxt - now > 0 THEN "sleep" ELSE "send"
    /\ UNCHANGED <<inV, tabV, wizV, result, exc, locV, serV, obsV, now, nxt, start, ticks, cntV, sigV>>

\* time.sleep(dt): returns dt later, or a little after that
DeadlineSleep ==
    /\ pc = "sleep"
    /\ \E late \in 0..MaxOversleep : now' = now + dt + late
    /\ sinceWait' = 0
    /\ pc' = "send"
    /\ UNCHANGED <<inV, tabV, wizV, result, exc, locV, serV, obsV, nxt, start, ticks, dt,
                   sends, stalls, sigV>>

\* statements of run() inside `try:`
TryPcs == {"clock0", "send", "wf_write", "wf_flush", "wf_sleep", "advance",
           "readclock", "sleep"}
\* statements inside LedCtl.__enter__
EnterPcs == {"enter", "open_dtr", "open_rts"}

\* a KeyboardInterrupt that no except clause of run() catches
Interrupt_uncaught ==
    /\ args.prog \in PatternProgs
    /\ pc \in TryPcs \cup EnterPcs \cup {"run", "ctl_init", "except"}
    /\ intrAt' = IF intrAt = "none" THEN pc ELSE intrAt
    /\ Finish("KeyboardInterrupt")
    /\ UNCHANGED <<inV, tabV, wizV, exc, locV, serV, obsV, clkV, cntV, termAt, failAt>>

\* KeyboardInterrupt (SIGINT) in a pattern process: inside the try it goes to
\* the except clause, inside the except clause it goes on to __exit__, and
\* before the with body is entered it leaves run() as it is
Interrupt ==
    /\ args.prog \in PatternProgs
    /\ pc \in TryPcs \cup EnterPcs \cup {"run", "ctl_init", "except"}
    /\ intrAt' = IF intrAt = "none" THEN pc ELSE intrAt
    /\ IF pc \in TryPcs
       THEN exc' = "KeyboardInterrupt" /\ pc' = "except" /\ UNCHANGED <<result>>
       ELSE IF pc = "except"
       THEN exc' = "KeyboardInterrupt" /\ pc' = "exit" /\ UNCHANGED <<result>>
       ELSE Finish("KeyboardInterrupt") /\ UNCHANGED <<exc>>
    /\ UNCHANGED <<inV, tabV, wizV, locV, serV, obsV, clkV, cntV, termAt, failAt>>

\* except KeyboardInterrupt: pass
ExceptPass ==
    /\ pc = "except"
    /\ exc' = "none"
    /\ pc' = "exit"
    /\ UNCHANGED <<inV, tabV, wizV, result, locV, serV, obsV, clkV, cntV, sigV>>

\* a close() that drops the handle without closing the device
close_leak(s) == [ser |-> "None", devOpen |-> s.devOpen, closes |-> s.closes]

\* LedCtl.close(): if self.ser is not None: self.ser.close(); self.ser = None
close(s) ==
    IF s.ser # "None"
    THEN [ser |-> "None", devOpen |-> FALSE, closes |-> s.closes + 1]
    ELSE s

\* LedCtl.__exit__ -> close(), then `return 0` or the exception goes on
LedCtlExit ==
    /\ pc = "exit"
    /\ LET c == close([ser |-> ser, devOpen |-> devOpen, closes |-> closes])
       IN  /\ ser' = c.ser
           /\ devOpen' = c.devOpen
           /\ closes' = c.closes
    /\ Finish(IF exc = "none" THEN "returned" ELSE exc)
    /\ UNCHANGED <<inV, tabV, wizV, exc, locV, opens, obsV, clkV, cntV, sigV>>

\* SIGTERM from kill_all_patterns: no handler is installed anywhere, so the
\* default action ends the process at once; no Python statement runs any
\* more, and the kernel closes the descriptors
SigTerm ==
    /\ args.prog \in PatternProgs
    /\ pc # "done"
    /\ termAt' = pc
    /\ devOpen' = FALSE
    /\ Finish("SIGTERM")
    /\ UNCHANGED <<inV, tabV, wizV, exc, locV, ser, opens, closes, obsV, clkV, cntV, intrAt, failAt>>

Next ==
    \/ SbmResolve \/ SbmCheck \/ OsPort \/ OsBuild \/ OsOpen \/ OsDtr \/ OsRts
    \/ OsWrite \/ OsFlush \/ OsSleep \/ OsFinally \/ OsInterrupt
    \/ PatternSetup \/ LedCtlInit \/ LedCtlOpen \/ OpenDtr \/ OpenRts \/ Clock0
    \/ SetModeOnce \/ WfWrite \/ WfFlush \/ WfSleep \/ Advance \/ ReadClock
    \/ DeadlineSleep \/ Interrupt \/ ExceptPass \/ LedCtlExit \/ SigTerm

Spec == Init /\ [][Next]_vars


(* ------------- a LedCtl object driven through its methods -------------- *)
\* LedCtl(port, ...) constructed with a port that resolves
LedCtlObjects ==
    {Call("LedCtl", IntV(MODE.CYCLE), b, 3, p, None) :
        b \in {1, 5}, p \in {c \in PortCases : port_or_find(c[1], c[2]).t = "str"}}

InitLedCtl ==
    /\ args \in LedCtlObjects
    /\ pc = "api"
    /\ result = "running"
    /\ exc = "none"
    /\ mode = args.mode.v
    /\ lv = <<args.brightness, args.speed>>
    /\ frame = <<>>
    /\ i = 1
    /\ dev = port_or_find(args.port, args.ports)
    /\ tick = 0
    /\ ib = IB_DELAY_DEFAULT
    /\ ser = "None"
    /\ devOpen = FALSE
    /\ opens = 0
    /\ closes = 0
    /\ trace = <<>>
    /\ wire = <<>>
    /\ now = StartClock
    /\ nxt = 0
    /\ start = -1
    /\ ticks = 0
    /\ dt = 0
    /\ sends = 0
    /\ sinceWait = 0
    /\ stalls = 0
    /\ intrAt = "none"
    /\ termAt = "none"
    /\ failAt = NoFail
    /\ procs = [p \in Pids |-> NoProc]
    /\ wiz = NoWizard

\* one finished method call: whether it returned, and the handle and the
\* number of device opens it left behind
ApiEv(op, ok, s, n) == [op |-> op, ok |-> ok, held |-> s # "None", opens |-> n]

\* the outcomes of LedCtl.open(): nothing to do; serial.Serial() succeeds and
\* DTR/RTS are set; serial.Serial() raises; self.ser is assigned and setting
\* DTR/RTS raises
OpenOutcomes(s, n) ==
    IF NeedsOpen(s)
    THEN {[ok |-> TRUE, ser |-> "Serial", opened |-> TRUE, opens |-> n + 1],
          [ok |-> FALSE, ser |-> s, opened |-> FALSE, opens |-> n],
          [ok |-> FALSE, ser |-> "Serial", opened |-> TRUE, opens |-> n + 1]}
    ELSE {[ok |-> TRUE, ser |-> s, opened |-> FALSE, opens |-> n]}

\* ctl.open()
ApiOpen ==
    /\ pc = "api"
    /\ Len(trace) < MaxCalls
    /\ \E o \in OpenOutcomes(ser, opens) :
          /\ ser' = o.ser
          /\ opens' = o.opens
          /\ devOpen' = (devOpen \/ o.opened)
          /\ trace' = Append(trace, ApiEv("open", o.ok, o.ser, o.opens))
    /\ UNCHANGED <<inV, tabV, wizV, ctlV, locV, closes, wire, clkV, cntV, sigV>>

\* ctl.close()
ApiClose ==
    /\ pc = "api"
    /\ Len(trace) < MaxCalls
    /\ LET c == close([ser |-> ser, devOpen |-> devOpen, closes |-> closes])
       IN  /\ ser' = c.ser
           /\ devOpen' = c.devOpen
           /\ closes' = c.closes
           /\ trace' = Append(trace, ApiEv("close", TRUE, c.ser, opens))
    /\ UNCHANGED <<inV, tabV, wizV, ctlV, locV, opens, wire, clkV, cntV, sigV>>

\* ctl.set_mode_once(mode, b, s): open() when self.ser is None, then
\* _write_frame; the frame goes out whole, or a write / flush raises after
\* k bytes and the exception leaves the call with the handle as it is
ApiSetModeOnce ==
    /\ pc = "api"
    /\ Len(trace) < MaxCalls
    /\ LET f == build_frame(mode, lv[1], lv[2]).v
       IN  \E o \in OpenOutcomes(ser, opens) :
              /\ ser' = o.ser
              /\ opens' = o.opens
              /\ devOpen' = (devOpen \/ o.opened)
              /\ frame' = f
              /\ IF ~o.ok
                 THEN /\ trace' = Append(trace, ApiEv("set_mode_once", FALSE, o.ser, o.opens))
                      /\ UNCHANGED <<wire, sends>>
                 ELSE \/ /\ wire' = wire \o f
                         /\ sends' = sends + 1
                         /\ trace' = Append(trace,
                                ApiEv("set_mode_once", TRUE, o.ser, o.opens))
                      \/ \E k \in 0..(FRAME_LEN - 1) :
                            /\ wire' = wire \o SubSeq(f, 1, k)
                            /\ trace' = Append(trace,
                                   ApiEv("set_mode_once", FALSE, o.ser, o.opens))
                            /\ UNCHANGED <<sends>>
    /\ UNCHANGED <<inV, tabV, wizV, ctlV, mode, lv, i, dev, tick, ib, closes, clkV,
                   sinceWait, stalls, sigV>>

NextLedCtl == ApiOpen \/ ApiClose \/ ApiSetModeOnce

SpecLedCtl == InitLedCtl /\ [][NextLedCtl]_vars


(* ------------------ ledctl setpattern: the command line ---------------- *)
\* _PATTERNS of ledctl.patterns
PATTERNS ==
    [stillred |-> ".stillred", stillblue |-> ".stillblue",
     breathered |-> ".breathered", alarm |-> ".alarm"]

\* list_patterns(): the registered names
list_patterns == DOMAIN PATTERNS

\* a registry lookup that takes any name for a module of the package
get_pattern_any(name) == Ok(name)

\* get_pattern(name): the run() of a registered pattern, SystemExit otherwise
get_pattern(name) == IF name \in DOMAIN PATTERNS THEN Ok(name) ELSE Raise("SystemExit")

\* the options of the first-stage parser of setpattern.main
BaseFlags == {"--background", "-g", "--no-kill-existing"}

\* position of the first "--" of an argument list, Len + 1 without one
DashDash(argv) ==
    IF \E k \in 1..Len(argv) : argv[k] = "--"
    THEN CHOOSE k \in 1..Len(argv) :
            argv[k] = "--" /\ \A j \in 1..(k - 1) : argv[j] # "--"
    ELSE Len(argv) + 1

\* a first stage that leaves its own options in the tail for the second stage
parse_known_args_keep(argv) ==
    LET d == DashDash(argv)
        opts == SubSeq(argv, 1, d - 1)
        rest == SubSeq(argv, d + 1, Len(argv))
        words == SelectSeq(opts, LAMBDA t : t \notin BaseFlags) \o rest
    IN  [pattern_or_cmd |-> IF words = <<>> THEN "" ELSE words[1],
         tail |-> SelectSeq(opts, LAMBDA t : t \in BaseFlags)
                    \o (IF words = <<>> THEN <<>> ELSE Tail(words))]

\* base.parse_known_args(argv): the options the base parser knows are consumed
\* wherever they stand in front of a "--"; the first positional is
\* pattern_or_cmd; what is left over (the tail) is everything else, with the
\* "--" itself dropped
parse_known_args(argv) ==
    LET d == DashDash(argv)
        opts == SubSeq(argv, 1, d - 1)
        rest == SubSeq(argv, d + 1, Len(argv))
        words == SelectSeq(opts, LAMBDA t : t \notin BaseFlags) \o rest
    IN  [pattern_or_cmd |-> IF words = <<>> THEN "" ELSE words[1],
         tail |-> IF words = <<>> THEN <<>> ELSE Tail(words)]

\* runner.parse_args(tail): the two flags of the second-stage parser
parse_args(tail) ==
    [background |-> \E k \in 1..Len(tail) : tail[k] \in {"--background", "-g"},
     no_kill_existing |-> \E k \in 1..Len(tail) : tail[k] = "--no-kill-existing"]

\* the command line `ledctl setpattern ...` typed by a user
UserCmd(argv) == <<"ledctl", "setpattern">> \o argv

\* _spawn_background: the command line of the detached child
spawn_background_cmd(pattern, argv_tail) ==
    <<"python", "-m", "ledctl", "setpattern", pattern>>
        \o SelectSeq(argv_tail, LAMBDA t : t \notin {"--background", "-g"})

\* the arguments handed to setpattern.main: what follows "setpattern"
MainArgv(cmd) ==
    LET k == CHOOSE n \in 1..Len(cmd) : cmd[n] = "setpattern"
    IN  SubSeq(cmd, k + 1, Len(cmd))

\* "ledctl" in args
HasLedctl(cmd) == \E k \in 1..Len(cmd) : cmd[k] = "ledctl"

\* " setpattern " in f" {args} "
HasSetpattern(cmd) == \E k \in 1..Len(cmd) : cmd[k] = "setpattern"

\* " setpattern kill" in args
HasSetpatternKill(cmd) ==
    \E k \in 2..(Len(cmd) - 1) : cmd[k] = "setpattern" /\ cmd[k + 1] = "kill"

\* a scan that only knows the `python -m ledctl setpattern ...` form
Matches_python(cmd) ==
    cmd[1] = "python" /\ HasLedctl(cmd) /\ HasSetpattern(cmd) /\ ~HasSetpatternKill(cmd)

\* the test of _list_pattern_pids on one line of `ps -eo pid,args`
Matches(cmd) == HasLedctl(cmd) /\ HasSetpattern(cmd) /\ ~HasSetpatternKill(cmd)

\* the process exists: ps shows it and a signal can reach it
Alive(r) == r.st \notin {"free", "exited", "SIGTERM", "SIGKILL"}

\* _list_pattern_pids() called by process `me`
list_pattern_pids(table, me) ==
    {q \in DOMAIN table : q # me /\ Alive(table[q]) /\ Matches(table[q].cmd)}

\* the command line of the wizard
WizardCmd == <<"ledctl", "wizard">>

\* the pattern the wizard's user has selected
WizardPattern == "alarm"

\* pgrep -f "ledctl.*setpattern": "setpattern" somewhere after "ledctl"
PgrepMatches(cmd) ==
    \E j \in 1..Len(cmd) : \E k \in (j + 1)..Len(cmd) :
        cmd[j] = "ledctl" /\ cmd[k] = "setpattern"

\* the fallback of wizard._pattern_pids on a line of `ps -eo pid,cmd`:
\* "ledctl" in cmd and " setpattern " in cmd and "grep" not in cmd
PsMatches(cmd) ==
    /\ HasLedctl(cmd)
    /\ \E k \in 2..(Len(cmd) - 1) : cmd[k] = "setpattern"
    /\ \A k \in 1..Len(cmd) : cmd[k] # "grep"

\* wizard._pattern_pids(): what pgrep prints; pgrep exits with an error when
\* nothing matches, and then the ps fallback runs
pattern_pids(table, me) ==
    LET viaPgrep == {q \in DOMAIN table :
                        q # me /\ Alive(table[q]) /\ PgrepMatches(table[q].cmd)}
        viaPs == {q \in DOMAIN table :
                        q # me /\ Alive(table[q]) /\ PsMatches(table[q].cmd)}
    IN  IF viaPgrep # {} THEN viaPgrep ELSE viaPs

\* wizard._pattern_is_running(pattern): " setpattern <pattern> " in f" {line} "
pattern_is_running(table, pattern) ==
    \E q \in DOMAIN table :
        /\ Alive(table[q])
        /\ \E k \in 1..(Len(table[q].cmd) - 1) :
              table[q].cmd[k] = "setpattern" /\ table[q].cmd[k + 1] = pattern

\* wizard._spawn_pattern_background: the command line of the detached child
spawn_pattern_background_cmd(pattern) ==
    <<"python", "-m", "ledctl", "setpattern", pattern,
      "--baud", "10000", "--dtr", "--no-rts">>

\* the scan a process runs: the wizard has its own
ScanBy(table, me) ==
    IF table[me].cmd = WizardCmd THEN pattern_pids(table, me)
    ELSE list_pattern_pids(table, me)

(* --------------- ledctl setpattern: processes on one host -------------- *)
\* the variables of the single process of Spec, which the host model leaves alone
oneV == <<inV, wizV, ctlV, locV, serV, obsV, clkV, cntV, sigV>>

\* what users type after `ledctl setpattern`
UserArgvs ==
    {<<"alarm">>, <<"alarm", "--no-kill-existing">>,
     <<"alarm", "--", "--no-kill-existing">>, <<"alarm", "--", "--background">>,
     <<"alarm", "--background">>,
     <<"list">>, <<>>, <<"kill">>, <<"bogus">>}

InitGuard ==
    /\ args = Call("setpattern", None, 0, 0, <<None, <<>> >>, None)
    /\ pc = "host"
    /\ result = "running"
    /\ exc = "none"
    /\ mode = 0
    /\ lv = <<0, 0>>
    /\ frame = <<>>
    /\ i = 1
    /\ dev = None
    /\ tick = 0
    /\ ib = IB_DELAY_DEFAULT
    /\ ser = "None"
    /\ devOpen = FALSE
    /\ opens = 0
    /\ closes = 0
    /\ trace = <<>>
    /\ wire = <<>>
    /\ now = StartClock
    /\ nxt = 0
    /\ start = -1
    /\ ticks = 0
    /\ dt = 0
    /\ sends = 0
    /\ sinceWait = 0
    /\ stalls = 0
    /\ intrAt = "none"
    /\ termAt = "none"
    /\ failAt = NoFail
    /\ procs = [p \in Pids |-> NoProc]
    /\ wiz = NoWizard

\* the first-stage and second-stage parse of a process's own command line
Parsed(cmd) ==
    LET a == parse_known_args(MainArgv(cmd))
    IN  [pattern_or_cmd |-> a.pattern_or_cmd, tail |-> a.tail, ns |-> parse_args(a.tail)]

\* main() after kill_all_patterns() returned, or was skipped; the wizard's
\* apply_current after _kill_running_patterns() returned
AfterKill(cmd) ==
    IF cmd = WizardCmd THEN "spawn"
    ELSE IF Parsed(cmd).pattern_or_cmd = "kill" THEN "exited"
    ELSE IF Parsed(cmd).ns.background THEN "spawn"
    ELSE "open"

\* a kill_all_patterns that reports how many processes are gone
kill_ret_gone(pids, survivors) == Cardinality(pids \ survivors)

\* kill_all_patterns: return len(pids)
kill_ret(pids, survivors) == Cardinality(pids)

\* a user runs `ledctl setpattern ...`: the process gets the next pid
Exec(p) ==
    /\ pc = "host"
    /\ procs[p].st = "free"
    /\ \A q \in Pids : q < p => procs[q].st # "free"
    /\ \E cmd \in {UserCmd(argv) : argv \in UserArgvs} \cup {WizardCmd} :
          procs' = [procs EXCEPT ![p] = [NoProc EXCEPT !.cmd = cmd, !.st = "main"]]
    /\ UNCHANGED oneV

\* setpattern.main up to kill_all_patterns: the admin commands, the
\* unknown-pattern check, the second-stage parse
Main(p) ==
    /\ procs[p].st = "main"
    /\ procs[p].cmd # WizardCmd
    /\ LET a == Parsed(procs[p].cmd)
           to == IF a.pattern_or_cmd \in {"", "list"} THEN "print_list"
                 ELSE IF a.pattern_or_cmd = "kill" THEN "scan1"
                 ELSE IF a.pattern_or_cmd \notin list_patterns THEN "exited"
                 ELSE IF ~a.ns.no_kill_existing THEN "scan1"
                 ELSE AfterKill(procs[p].cmd)
       IN  procs' = [procs EXCEPT
                ![p].st = to,
                ![p].res = IF to = "exited" THEN "SystemExit" ELSE @]
    /\ UNCHANGED oneV

\* _print_list, then return 0
PrintList(p) ==
    /\ procs[p].st = "print_list"
    /\ procs' = [procs EXCEPT ![p].st = "exited", ![p].res = "returned"]
    /\ UNCHANGED oneV

\* the host still has a process-management failure in store for process p
MayFail(p) == procs[p].pmFail \/ Cardinality({q \in Pids : procs[q].pmFail}) < MaxPmFail

\* a process that is gone: only its command line and how it ended are kept
Gone(r, how, res) == [NoProc EXCEPT !.cmd = r.cmd, !.st = how, !.res = res,
                                     !.pmFail = r.pmFail]

\* kill_all_patterns: pids = _list_pattern_pids(); `ps` may fail, which gives
\* []; `if not pids: return 0`
Scan1(p) ==
    /\ procs[p].st = "scan1"
    /\ \/ LET found == ScanBy(procs, p)
          IN  procs' = [procs EXCEPT
                   ![p].pids = found,
                   ![p].ret = IF found = {} THEN 0 ELSE @,
                   ![p].st = IF found = {} THEN "ret" ELSE "term"]
       \/ /\ MayFail(p)
          /\ procs' = [procs EXCEPT
                   ![p].pmFail = TRUE,
                   ![p].ret = 0,
                   ![p].st = "ret"]
    /\ UNCHANGED oneV

\* the smallest pid of a set: `for pid in pids` follows the order of ps
Lowest(S) == CHOOSE q \in S : \A r \in S : q <= r

\* what an exception out of os.kill does to the caller: `except: pass`
OnKillError_raise(st) == "exited"

OnKillError(st) == st

\* the caller's record after one os.kill of a loop over `all`
Signalled(r, q, field, all, failed) ==
    LET done == IF field = "termTo" THEN r.termTo \cup {q} ELSE r.killTo \cup {q}
        goes == IF field = "termTo"
                THEN (IF done = all THEN "grace" ELSE r.st)
                ELSE (IF done = all THEN "ret" ELSE r.st)
        to   == IF failed THEN OnKillError(goes) ELSE goes
    IN  [r EXCEPT
            !.termTo = IF field = "termTo" THEN done ELSE @,
            !.killTo = IF field = "killTo" THEN done ELSE @,
            !.ret = IF field = "killTo" /\ done = all
                    THEN kill_ret(r.pids, r.surv) ELSE @,
            !.st = to]

\* os.kill(pid, sig): no handler is installed, so a delivered SIGTERM or
\* SIGKILL ends the target at once; the call raises when the target belongs
\* to someone else (EPERM) or is gone (ESRCH)
OsKill(p, q, sig, field, all) ==
    \/ /\ Alive(procs[q])
       /\ procs' = [procs EXCEPT
                ![q] = Gone(@, sig, "none"),
                ![p] = Signalled(procs[p], q, field, all, FALSE)]
    \/ /\ Alive(procs[q])
       /\ MayFail(p)
       /\ procs' = [procs EXCEPT
                ![p] = [Signalled(procs[p], q, field, all, TRUE)
                            EXCEPT !.pmFail = TRUE]]
    \/ /\ ~Alive(procs[q])
       /\ procs' = [procs EXCEPT
                ![p] = Signalled(procs[p], q, field, all, TRUE)]

\* kill_all_patterns: one os.kill(pid, signal.SIGTERM) of the first loop
Term(p) ==
    /\ procs[p].st = "term"
    /\ OsKill(p, Lowest(procs[p].pids \ procs[p].termTo), "SIGTERM", "termTo",
              procs[p].pids)
    /\ UNCHANGED oneV

\* kill_all_patterns: time.sleep(grace), then survivors = _list_pattern_pids()
Scan2(p) ==
    /\ procs[p].st = "grace"
    /\ \/ LET found == ScanBy(procs, p)
          IN  procs' = [procs EXCEPT
                   ![p].surv = found,
                   ![p].ret = IF found = {} THEN kill_ret(procs[p].pids, found) ELSE @,
                   ![p].st = IF found = {} THEN "ret" ELSE "kill"]
       \/ /\ MayFail(p)
          /\ procs' = [procs EXCEPT
                   ![p].pmFail = TRUE,
                   ![p].ret = kill_ret(procs[p].pids, {}),
                   ![p].st = "ret"]
    /\ UNCHANGED oneV

\* kill_all_patterns: one os.kill(pid, signal.SIGKILL) of the second loop
Kill(p) ==
    /\ procs[p].st = "kill"
    /\ OsKill(p, Lowest(procs[p].surv \ procs[p].killTo), "SIGKILL", "killTo",
              procs[p].surv)
    /\ UNCHANGED oneV

\* kill_all_patterns has returned: main goes on (or `kill` prints the count
\* and returns 0); the locals of the call are gone
Return(p) ==
    /\ procs[p].st = "ret"
    /\ LET to == AfterKill(procs[p].cmd)
       IN  procs' = [procs EXCEPT
                ![p] = IF to = "exited" THEN Gone(@, "exited", "returned")
                       ELSE [@ EXCEPT !.st = to, !.pids = {}, !.termTo = {},
                                      !.surv = {}, !.killTo = {}]]
    /\ UNCHANGED oneV

\* the wizard: ENTER on a pattern, apply_current starts with
\* _kill_running_patterns()
WizApply(p) ==
    /\ procs[p].cmd = WizardCmd
    /\ procs[p].st \in {"main", "ui"}
    /\ procs' = [procs EXCEPT ![p].st = "scan1", ![p].ret = -1]
    /\ UNCHANGED oneV

\* the wizard: apply_current -> _spawn_pattern_background, then back to the keys
WizSpawn(p) ==
    /\ procs[p].cmd = WizardCmd
    /\ procs[p].st = "spawn"
    /\ \E c \in Pids :
          /\ procs[c].st = "free"
          /\ \A q \in Pids : q < c => procs[q].st # "free"
          /\ procs' = [procs EXCEPT
                   ![c] = [NoProc EXCEPT
                              !.cmd = spawn_pattern_background_cmd(WizardPattern),
                              !.st = "main"],
                   ![p].st = "ui"]
    /\ UNCHANGED oneV

\* the wizard: q, then _reissue_after_quit for a pattern: spawn it unless
\* `ps` shows it running (a failing `ps` counts as not running)
WizQuit(p) ==
    /\ procs[p].cmd = WizardCmd
    /\ procs[p].st \in {"main", "ui"}
    /\ \/ /\ pattern_is_running(procs, WizardPattern)
          /\ procs' = [procs EXCEPT ![p] = Gone(@, "exited", "returned")]
       \/ /\ ~pattern_is_running(procs, WizardPattern) \/ MayFail(p)
          /\ \E c \in Pids :
                /\ procs[c].st = "free"
                /\ \A q \in Pids : q < c => procs[q].st # "free"
                /\ procs' = [procs EXCEPT
                         ![c] = [NoProc EXCEPT
                                    !.cmd = spawn_pattern_background_cmd(WizardPattern),
                                    !.st = "main"],
                         ![p] = Gone(@, "exited", "returned")]
    /\ UNCHANGED oneV

\* _spawn_background: Popen of the detached child, then return 0
Spawn(p) ==
    /\ procs[p].st = "spawn"
    /\ procs[p].cmd # WizardCmd
    /\ \E c \in Pids :
          /\ procs[c].st = "free"
          /\ \A q \in Pids : q < c => procs[q].st # "free"
          /\ LET a == Parsed(procs[p].cmd)
             IN  procs' = [procs EXCEPT
                      ![c] = [NoProc EXCEPT
                                 !.cmd = spawn_background_cmd(a.pattern_or_cmd, a.tail),
                                 !.st = "main"],
                      ![p] = Gone(@, "exited", "returned")]
    /\ UNCHANGED oneV

\* run_pattern -> get_pattern(name)(**kwargs): with LedCtl(...) opens the port
Open(p) ==
    /\ procs[p].st = "open"
    /\ IF get_pattern(Parsed(procs[p].cmd).pattern_or_cmd).ok
       THEN \/ procs' = [procs EXCEPT ![p].st = "loop"]
            \/ procs' = [procs EXCEPT ![p] = Gone(@, "exited", "SerialException")]
       ELSE procs' = [procs EXCEPT ![p] = Gone(@, "exited", "SystemExit")]
    /\ UNCHANGED oneV

\* Ctrl+C in the running loop: the port is closed and main returns 0
LoopEnd(p) ==
    /\ procs[p].st = "loop"
    /\ procs' = [procs EXCEPT ![p] = Gone(@, "exited", "returned")]
    /\ UNCHANGED oneV

NextGuard ==
    \E p \in Pids :
        \/ Exec(p) \/ Main(p) \/ PrintList(p) \/ Scan1(p) \/ Term(p) \/ Scan2(p)
        \/ Kill(p) \/ Return(p) \/ Spawn(p) \/ Open(p) \/ LoopEnd(p)
        \/ WizApply(p) \/ WizSpawn(p) \/ WizQuit(p)

SpecGuard == InitGuard /\ [][NextGuard]_vars

(* ------------------------ the wizard's key loop ------------------------ *)
BUILTINS == DOMAIN BUILTIN_MODES
PATTERN_ONLY_B == {"stillred", "stillblue"}
PATTERN_ONLY_NONE == {"alarm"}
PATTERN_SPEED_PRESETS == {"breathered"}
\* `ledctl setmode <name>` takes these names only
MODE_CHOICES == {"rainbow", "breathing", "cycle"}

brightness_enabled(name) ==
    IF name \in BUILTINS THEN TRUE
    ELSE IF name \in PATTERN_ONLY_B THEN TRUE
    ELSE IF name \in PATTERN_SPEED_PRESETS THEN FALSE
    ELSE IF name \in PATTERN_ONLY_NONE THEN FALSE
    ELSE TRUE

speed_enabled(name) ==
    IF name \in BUILTINS THEN TRUE
    ELSE IF name \in PATTERN_ONLY_B THEN FALSE
    ELSE IF name \in PATTERN_SPEED_PRESETS THEN TRUE
    ELSE IF name \in PATTERN_ONLY_NONE THEN FALSE
    ELSE TRUE

\* sorted(BUILTINS | set(list_patterns()))
SortedNames ==
    <<"alarm", "auto", "breathered", "breathing", "cycle", "off", "rainbow",
      "stillblue", "stillred">>

\* the name list of the UI: "off" moved to the front
names == <<"off">> \o SelectSeq(SortedNames, LAMBDA n : n # "off")

\* ports = find_ports(), as found when the UI starts
WizPorts == <<PortFound>>

\* names[name_idx] of a wizard (Python indexes from 0)
Cur(w) == names[w.name_idx + 1]

\* a level changed by a step without any limit
step_level_free(v, step) == v + step

\* min(5, max(1, v + step))
step_level(v, step) ==
    LET x == v + step
    IN  IF x < 1 THEN 1 ELSE IF x > 5 THEN 5 ELSE x

\* max(1, min(4, int(speed))): the -s handed to breathered
preset_speed(speed) == IF speed < 1 THEN 1 ELSE IF speed > 4 THEN 4 ELSE speed

\* one thing the wizard did: a _kill_running_patterns call, a frame sent, a
\* child spawned (b, s: the levels used; 0: the flag is not passed)
Ef(op, name, b, s) == [op |-> op, name |-> name, b |-> b, s |-> s]

\* _kill_running_patterns(): the loops it finds are gone when it returns
kill_running_patterns(w) ==
    [w EXCEPT !.loops = {}, !.log = Append(@, Ef("kill", "", 0, 0))]

\* send_frame_one_shot(mode=BUILTIN_MODES[name], brightness=b, speed=s, ...):
\* the frame goes out, or an exception of build_frame or of the serial port
\* leaves the UI
one_shot(w, name, b, s) ==
    IF ~build_frame(BUILTIN_MODES[name], b, s).ok
    THEN {[w EXCEPT !.pc = "crashed"]}
    ELSE {[w EXCEPT !.log = Append(@, Ef("frame", name, b, s))],
          [w EXCEPT !.pc = "crashed"]}

\* _spawn_pattern_background: -b only for PATTERN_ONLY_B, -s (clamped) only
\* for PATTERN_SPEED_PRESETS; the child's main stops other loops before its
\* own starts; a Popen that fails is swallowed (returns None)
spawn_pattern_background(w, pattern, brightness, speed) ==
    LET b == IF pattern \in PATTERN_ONLY_B /\ brightness # 0 THEN brightness ELSE 0
        s == IF pattern \in PATTERN_SPEED_PRESETS /\ speed # 0
             THEN preset_speed(speed) ELSE 0
    IN  {[w EXCEPT !.loops = {pattern}, !.log = Append(@, Ef("spawn", pattern, b, s))],
         [w EXCEPT !.log = Append(@, Ef("spawn_failed", pattern, b, s))]}

\* an apply_current that leaves running loops alone
apply_current_nokill(w) ==
    LET cur == Cur(w)
    IN  IF cur \in BUILTINS
        THEN {[x EXCEPT !.pattern_running = (x.pc = "crashed") /\ @, !.applied = cur] :
                 x \in one_shot(w, cur, w.bright, w.speed)}
        ELSE {[x EXCEPT !.pattern_running = TRUE, !.applied = cur] :
                 x \in spawn_pattern_background(w, cur,
                          IF cur \in PATTERN_ONLY_B THEN w.bright ELSE 0,
                          IF cur \in PATTERN_SPEED_PRESETS THEN w.speed ELSE 0)}

\* apply_current(): _kill_running_patterns(), then a one-shot frame for a
\* built-in (pattern_running = False) or a background child for a pattern
\* (pattern_running = True)
apply_current(w) == apply_current_nokill(kill_running_patterns(w))

\* _pattern_is_running(name) as the wizard sees its host
wiz_pattern_is_running(w, name) == name \in w.loops

\* `python -m ledctl setmode <name> -b .. -s ..`: argparse rejects a name that
\* is no choice (exit status 2, nothing sent); otherwise set_builtin_mode
\* sends one frame, or fails on the port; the wizard looks at neither output
\* nor status
run_setmode(w, name, b, s) ==
    IF name \notin MODE_CHOICES \/ b \notin 1..5 \/ s \notin 1..5
    THEN {w}
    ELSE {[w EXCEPT !.log = Append(@, Ef("frame", name, b, s))],
          [w EXCEPT !.log = Append(@, Ef("frame_failed", name, b, s))]}

\* _reissue_after_quit(name, b, s, ..., pattern_running)
reissue_after_quit(w) ==
    LET name == Cur(w)
    IN  IF name \in BUILTINS
        THEN run_setmode(w, name, w.bright, w.speed)
        ELSE IF ~wiz_pattern_is_running(w, name)
        THEN spawn_pattern_background(w, name,
                 IF name \in PATTERN_ONLY_B THEN w.bright ELSE 0,
                 IF name \in PATTERN_SPEED_PRESETS THEN w.speed ELSE 0)
        ELSE {w}

\* the wizard starts: _curses_ui's locals; a pattern loop somebody started
\* before may be running
InitWizard ==
    /\ args = Call("wizard", None, 0, 0, <<None, WizPorts>>, None)
    /\ pc = "host"
    /\ result = "running"
    /\ exc = "none"
    /\ mode = 0
    /\ lv = <<0, 0>>
    /\ frame = <<>>
    /\ i = 1
    /\ dev = None
    /\ tick = 0
    /\ ib = IB_DELAY_DEFAULT
    /\ ser = "None"
    /\ devOpen = FALSE
    /\ opens = 0
    /\ closes = 0
    /\ trace = <<>>
    /\ wire = <<>>
    /\ now = StartClock
    /\ nxt = 0
    /\ start = -1
    /\ ticks = 0
    /\ dt = 0
    /\ sends = 0
    /\ sinceWait = 0
    /\ stalls = 0
    /\ intrAt = "none"
    /\ termAt = "none"
    /\ failAt = NoFail
    /\ procs = [p \in Pids |-> NoProc]
    /\ \E l \in {{}, {"alarm"}} :
          wiz = [pc |-> "keys", port_idx |-> 0, name_idx |-> 0, bright |-> 3,
                 speed |-> 3, idx |-> 1, dtr |-> TRUE, rts |-> FALSE,
                 pattern_running |-> FALSE, applied |-> "none", loops |-> l,
                 log |-> <<>>]

\* the variables the wizard model leaves alone
restV == <<inV, tabV, ctlV, locV, serV, obsV, clkV, cntV, sigV>>

\* the wizard waits in getch(); what the last key did is forgotten
AtKey == [wiz EXCEPT !.log = <<>>]

\* q / Q: the UI returns its locals
KeyQuit ==
    /\ wiz.pc = "keys"
    /\ wiz' = [AtKey EXCEPT !.pc = "quit"]
    /\ UNCHANGED restV

\* o / O: _kill_running_patterns(), the Off frame, pattern_running = False
KeyOff ==
    /\ wiz.pc = "keys"
    /\ wiz' \in {[x EXCEPT !.pattern_running = (x.pc = "crashed") /\ @] :
                    x \in one_shot(kill_running_patterns(AtKey), "off",
                                   wiz.bright, wiz.speed)}
    /\ UNCHANGED restV

\* KEY_UP: idx = (idx - 1) % 6
KeyUp ==
    /\ wiz.pc = "keys"
    /\ wiz' = [AtKey EXCEPT !.idx = (@ - 1) % 6]
    /\ UNCHANGED restV

\* KEY_DOWN: idx = (idx + 1) % 6
KeyDown ==
    /\ wiz.pc = "keys"
    /\ wiz' = [AtKey EXCEPT !.idx = (@ + 1) % 6]
    /\ UNCHANGED restV

\* KEY_LEFT / KEY_RIGHT on the field under the cursor
change_field(w, step) ==
    CASE w.idx = 0 -> [w EXCEPT !.port_idx = (@ + step) % Len(WizPorts)]
      [] w.idx = 1 ->
            [kill_running_patterns(
                 [w EXCEPT !.name_idx = (@ + step) % Len(names)])
             EXCEPT !.pattern_running = FALSE]
      [] w.idx = 2 /\ brightness_enabled(Cur(w)) ->
            [w EXCEPT !.bright = step_level(@, step)]
      [] w.idx = 3 /\ speed_enabled(Cur(w)) ->
            [w EXCEPT !.speed = step_level(@, step)]
      [] w.idx = 4 -> [w EXCEPT !.dtr = ~@]
      [] w.idx = 5 -> [w EXCEPT !.rts = ~@]
      [] OTHER -> w

KeyLeftRight ==
    /\ wiz.pc = "keys"
    /\ \E step \in {-1, 1} : wiz' = change_field(AtKey, step)
    /\ UNCHANGED restV

\* ENTER: apply_current()
KeyEnter ==
    /\ wiz.pc = "keys"
    /\ wiz' \in apply_current(AtKey)
    /\ UNCHANGED restV

\* after curses has exited: _reissue_after_quit, then main returns 0
Reissue ==
    /\ wiz.pc = "quit"
    /\ wiz' \in {[x EXCEPT !.pc = "done"] : x \in reissue_after_quit(wiz)}
    /\ UNCHANGED restV

NextWizard ==
    KeyQuit \/ KeyOff \/ KeyUp \/ KeyDown \/ KeyLeftRight \/ KeyEnter \/ Reissue

SpecWizard == InitWizard /\ [][NextWizard]_vars

(* ============================== claims ================================= *)
ValidLevels == 1..5
ValidModes == 1..5

\* the frame the format prescribes for a mode byte and two human levels
ExpectedFrame(m, b, s) ==
    <<250, m, LEVEL_TO_WIRE[b], LEVEL_TO_WIRE[s],
      (250 + m + LEVEL_TO_WIRE[b] + LEVEL_TO_WIRE[s]) % 256>>

\* C1: for every mode byte in 1..5 and all levels b, s in 1..5, the frame
\* build_frame returns is [0xFA, mode, wire(b), wire(s), (0xFA + mode +
\* wire(b) + wire(s)) mod 256], the same on every call and every loop
\* iteration (Cycle,3,3 -> FA 03 03 03 03; Off,1,1 -> FA 04 05 05 08).
C1_FrameBytes ==
    (frame # <<>> /\ mode \in ValidModes)
        => /\ lv[1] \in ValidLevels /\ lv[2] \in ValidLevels
           /\ frame = ExpectedFrame(mode, lv[1], lv[2])
           /\ (mode = MODE.CYCLE /\ lv = <<3, 3>>) => frame = <<250, 3, 3, 3, 3>>
           /\ (mode = MODE.OFF /\ lv = <<1, 1>>) => frame = <<250, 4, 5, 5, 8>>

C1_Witness ==
    /\ args.prog = "set_builtin_mode"
    /\ args.mode = StrV("off")
    /\ lv = <<1, 1>>
    /\ result = "returned"
    /\ frame = <<250, 4, 5, 5, 8>>
    /\ wire = frame

BadLevels(b, s) == b \notin ValidLevels \/ s \notin ValidLevels

\* C2: with a brightness or speed outside 1..5 build_frame returns no tuple
\* (it raises), and set_builtin_mode / send_frame_one_shot end in an error
\* with no frame built, zero bytes written and no serial connection opened.
C2_BadLevelsRejected ==
    /\ (pc \in {"os_build", "send"} /\ BadLevels(lv[1], lv[2]))
          => LET r == build_frame(mode, lv[1], lv[2])
             IN  ~r.ok /\ r.err = "ValueError"
    /\ (args.prog \in OneShotProgs /\ BadLevels(args.brightness, args.speed))
          => /\ frame = <<>>
             /\ wire = <<>>
             /\ opens = 0
             /\ ~devOpen
             /\ result \in {"running", "SystemExit", "ValueError", "KeyboardInterrupt"}

C2_Witness ==
    /\ args.prog = "send_frame_one_shot"
    /\ args.brightness = 3
    /\ args.speed = 6
    /\ args.port = StrV(PortGiven)
    /\ result = "ValueError"
    /\ opens = 0
    /\ wire = <<>>

UnknownMode(m) ==
    \/ m.t = "int" /\ m.v \notin ValidModes
    \/ m.t = "str" /\ Lower(m.v) \notin DOMAIN BUILTIN_MODES

\* C3 (as claimed): a mode that is not one of the five defined ones, given
\* as a name or as an integer (a pattern's mode_num included), is rejected:
\* no frame is built and nothing is sent.
C3_UnknownModeRejected ==
    UnknownMode(args.mode) => (frame = <<>> /\ wire = <<>>)

\* C4: LEVEL_TO_WIRE is a bijection from {1..5} onto {5,4,3,2,1} and is
\* strictly decreasing; so in every frame built, a lower brightness than
\* speed level is sent as a higher wire byte.
C4_LevelToWireBijection ==
    /\ DOMAIN LEVEL_TO_WIRE = ValidLevels
    /\ {LEVEL_TO_WIRE[l] : l \in ValidLevels} = {5, 4, 3, 2, 1}
    /\ \A a \in ValidLevels, b \in ValidLevels :
          /\ a # b => LEVEL_TO_WIRE[a] # LEVEL_TO_WIRE[b]
          /\ a < b => LEVEL_TO_WIRE[a] > LEVEL_TO_WIRE[b]
    /\ (frame # <<>> /\ lv[1] < lv[2]) => frame[3] > frame[4]

C4_Witness ==
    /\ frame # <<>>
    /\ lv = <<1, 5>>
    /\ frame[3] = 5
    /\ frame[4] = 1
    /\ Len(wire) = 5

\* the k-th event of sending frame f with inter-byte delay d: byte by byte,
\* write, flush, sleep
CanonEv(f, d, k) ==
    LET b == ((k - 1) \div 3) + 1
        o == (k - 1) % 3
    IN  IF o = 0 THEN Ev("write", b, f[b])
        ELSE IF o = 1 THEN Ev("flush", b, 0)
        ELSE Ev("sleep", b, d)

FrameSent == Len(trace) = 15 /\ \A k \in 1..15 : trace[k] = CanonEv(frame, ib, k)

\* C5: every send, one-shot or persistent, emits the 5 bytes in index order,
\* one per write, each write followed by its flush and then the inter-byte
\* sleep before the next write; a send that ends without error has done
\* exactly 5 writes, 5 flushes and 5 sleeps.
C5_WriteFlushSleep ==
    /\ Len(trace) <= 15
    /\ \A k \in 1..Len(trace) : trace[k] = CanonEv(frame, ib, k)
    /\ pc \in {"os_write", "wf_write"} => Len(trace) = 3 * (i - 1)
    /\ pc \in {"os_flush", "wf_flush"} => Len(trace) = 3 * (i - 1) + 1
    /\ pc \in {"os_sleep", "wf_sleep"} => Len(trace) = 3 * (i - 1) + 2
    /\ (pc = "os_finally" /\ exc = "none") => FrameSent
    /\ (args.prog \in OneShotProgs /\ result = "returned") => FrameSent
    /\ (sends >= 1 /\ pc \in {"clock0", "advance", "readclock", "sleep", "send"})
          => FrameSent
    /\ Len(wire) >= 5 * sends

C5_Witness ==
    /\ args.prog = "alarm"
    /\ sends = 2
    /\ pc = "advance"
    /\ FrameSent
    /\ Len(wire) = 10

\* C6 (as claimed): send_frame_one_shot never ends, by return or by
\* exception, with the serial device it opened still open.
C6_OneShotAlwaysCloses ==
    (args.prog \in OneShotProgs /\ pc = "done") => ~devOpen

\* C7: in all three loops the stored deadline is start + N*T, N the number
\* of ticks done, whatever the sends and sleeps actually took; N is the
\* number of frames sent whenever the loop reads the clock.
C7_DriftFree ==
    (args.prog \in PatternProgs /\ start # -1 /\ pc \in TryPcs)
        => /\ nxt = start + ticks * tick
           /\ ticks = IF pc = "advance" THEN sends - 1 ELSE sends

C7_Witness ==
    /\ args.prog = "breathered"
    /\ pc = "readclock"
    /\ ticks = 3
    /\ stalls = 1
    /\ nxt = start + 3 * tick
    /\ now > nxt

\* C8 (as claimed): after a stall the loop skips forward instead of catching
\* up: the stalled send is followed by at most one send without a deadline
\* sleep in between.
C8_NoCatchUp ==
    args.prog \in PatternProgs => sinceWait <= 2

\* C9: a KeyboardInterrupt raised inside a pattern loop (in the deadline
\* sleep or anywhere else in the try) ends with LedCtl.close() having closed
\* the connection; run() never returns with its connection open.
C9_InterruptCloses ==
    /\ (args.prog \in PatternProgs /\ result = "returned")
          => (ser = "None" /\ ~devOpen /\ closes = opens)
    /\ (intrAt \in TryPcs /\ pc = "done" /\ termAt = "none")
          => (ser = "None" /\ ~devOpen /\ closes = 1)

C9_Witness ==
    /\ intrAt = "sleep"
    /\ result = "returned"
    /\ opens = 1
    /\ closes = 1
    /\ ser = "None"
    /\ ~devOpen

\* the life cycle of a pattern-loop process
ProcState ==
    IF result = "SIGTERM" THEN "Killed"
    ELSE IF pc = "done" THEN "Stopped"
    ELSE IF pc \in {"except", "exit"} THEN "Terminating"
    ELSE IF pc \in TryPcs THEN "Running"
    ELSE "Starting"

\* C10 (as claimed): a running pattern loop that receives SIGTERM unwinds:
\* it is Terminating and then Stopped, with LedCtl.close() executed, and
\* never ends Killed.
C10_TermUnwinds ==
    termAt \in TryPcs
        => /\ ProcState \in {"Terminating", "Stopped"}
           /\ pc = "done" => closes >= 1

\* C18: when the write or the flush of byte k (0..4) of a frame fails, no
\* further byte reaches the device (bytes k+1..4 are not written and the
\* frame is not started again), the process goes straight to its finally /
\* __exit__, and when the call has ended the caller holds the error while the
\* device is closed, in the one-shot call and in a pattern loop alike.
C18_IOErrorClosesNoRetry ==
    failAt.op # "none" =>
        /\ failAt.k \in 0..(FRAME_LEN - 1)
        /\ Len(wire) = failAt.wlen
        /\ Len(wire) = FRAME_LEN * sends + failAt.k
                         + (IF failAt.op = "flush" THEN 1 ELSE 0)
        /\ pc \in {"os_finally", "exit", "done"}
        /\ exc = "SerialException"
        /\ (pc = "done" /\ termAt = "none") =>
               /\ result = "SerialException"
               /\ ~devOpen
               /\ closes = opens

\* the flush of byte 2 of alarm's second frame failed and run() has ended
C18_Witness ==
    /\ args.prog = "alarm"
    /\ failAt.op = "flush"
    /\ failAt.k = 2
    /\ sends = 1
    /\ pc = "done"
    /\ result = "SerialException"

\* C20: with no port argument and an empty discovery, send_frame_one_shot and
\* LedCtl() end with SystemExit before any device is opened and before any
\* byte is written; with a port argument that path is the one opened, whatever
\* discovery would have returned.
C20_PortResolution ==
    /\ (args.port.t = "none" /\ args.ports = <<>>) =>
           /\ opens = 0
           /\ wire = <<>>
           /\ dev.t = "none"
           /\ pc \notin {"os_build", "os_open", "enter"}
           /\ (pc = "done" /\ intrAt = "none" /\ termAt = "none") =>
                  result = "SystemExit"
    /\ args.port.t = "str" =>
           /\ dev.t = "str" => dev = args.port
           /\ opens > 0 => dev = args.port

\* stillblue without a port on a machine without a candidate device
C20_Witness ==
    /\ args.prog = "stillblue"
    /\ args.port.t = "none"
    /\ args.ports = <<>>
    /\ args.brightness = 1
    /\ pc = "done"
    /\ result = "SystemExit"

\* the handle and the open count in front of call k of the object's history
Before(k) == IF k = 1 THEN [held |-> FALSE, opens |-> 0] ELSE trace[k - 1]

\* calls j..k of the history are all set_mode_once
SendsOnly(j, k) == \A n \in j..k : trace[n].op = "set_mode_once"

\* C19: over every sequence of open / set_mode_once / close calls on one
\* LedCtl, a call opens the device only when no connection is held (at most
\* once, and never while one is held), the opens exceed the closes by one
\* exactly while a connection is held, and a run of N consecutive
\* set_mode_once calls whose last one succeeded has opened the device once if
\* it started without a connection and not at all if it started with one.
C19_ReuseWithoutReopen ==
    pc = "api" =>
        /\ opens = closes + (IF ser = "Serial" THEN 1 ELSE 0)
        /\ devOpen <=> ser = "Serial"
        /\ \A k \in 1..Len(trace) :
              /\ Before(k).held => trace[k].opens = Before(k).opens
              /\ trace[k].opens - Before(k).opens \in {0, 1}
        /\ \A j \in 1..Len(trace) : \A k \in j..Len(trace) :
              (SendsOnly(j, k) /\ trace[k].ok) =>
                  trace[k].opens - Before(j).opens
                      = (IF Before(j).held THEN 0 ELSE 1)

\* three set_mode_once calls in a row on a fresh LedCtl: three frames, one open
C19_Witness ==
    /\ pc = "api"
    /\ Len(trace) = 3
    /\ SendsOnly(1, 3)
    /\ \A k \in 1..3 : trace[k].ok
    /\ sends = 3
    /\ Len(wire) = 3 * FRAME_LEN
    /\ opens = 1

(* ----------------------- claims on the process guard ------------------- *)
\* the processes of the table
Procs == {p \in Pids : procs[p].st # "free"}

\* the `ledctl setpattern ...` processes of the table
SetpatternProcs == {p \in Procs : procs[p].cmd # WizardCmd}

\* a pattern-loop process that is Running with the port open
Running == {p \in Pids : procs[p].st = "loop"}

\* kill-existing is suppressed for no process of the table
NoneSuppressed ==
    \A p \in SetpatternProcs : ~Parsed(procs[p].cmd).ns.no_kill_existing

\* no process listing and no signal delivery has failed on the host
NoPmFailure == \A p \in Pids : ~procs[p].pmFail

AdminCmd(cmd) == cmd # WizardCmd /\ Parsed(cmd).pattern_or_cmd \in {"", "list", "kill"}

\* C12: an administrative invocation (setpattern list, setpattern kill, bare
\* setpattern) is in no scan result of a setpattern process and is sent no
\* signal by kill_all_patterns.
C12_AdminNeverMatched ==
    \A p \in SetpatternProcs : \A q \in Procs :
        AdminCmd(procs[q].cmd) =>
            q \notin procs[p].pids \cup procs[p].surv
                       \cup procs[p].termTo \cup procs[p].killTo

\* the caller of kill_all_patterns / _kill_running_patterns is in neither
\* scan and is sent no signal; signals go to scanned pids only
CallerSpared ==
    \A p \in Procs :
        /\ p \notin procs[p].pids \cup procs[p].surv
        /\ p \notin procs[p].termTo \cup procs[p].killTo
        /\ procs[p].termTo \subseteq procs[p].pids
        /\ procs[p].killTo \subseteq procs[p].surv

\* C13: whatever the table holds besides the caller and foreign pattern-loop
\* processes, the caller is never signalled, and the processes that are
\* scanned and signalled are foreign pattern-loop processes and no others.
C13_SignalsExactlyPatternLoops ==
    /\ CallerSpared
    /\ \A p \in Procs : \A q \in procs[p].termTo \cup procs[p].killTo :
           /\ q \in SetpatternProcs
           /\ Parsed(procs[q].cmd).pattern_or_cmd \in list_patterns

\* C14: kill_all_patterns escalates in two phases, in order: while SIGTERMs
\* are being sent no SIGKILL has been sent and there is no re-scan yet; the
\* grace wait and the re-scan start only when every pid of the first scan was
\* sent SIGTERM; SIGKILL goes to the pids of the re-scan; and the call returns
\* the size of the first scan, whoever survived and whichever signal failed.
C14_TwoPhaseEscalation ==
    \A p \in Procs :
        LET r == procs[p]
        IN  /\ r.killTo # {} => r.termTo = r.pids
            /\ r.st = "scan1" =>
                   r.pids = {} /\ r.termTo = {} /\ r.surv = {} /\ r.killTo = {}
            /\ r.st = "term" =>
                   /\ r.termTo \subseteq r.pids /\ r.termTo # r.pids
                   /\ r.surv = {} /\ r.killTo = {}
            /\ r.st = "grace" =>
                   r.pids # {} /\ r.termTo = r.pids /\ r.surv = {} /\ r.killTo = {}
            /\ r.st = "kill" =>
                   /\ r.termTo = r.pids
                   /\ r.killTo \subseteq r.surv /\ r.killTo # r.surv
            /\ r.st = "ret" =>
                   /\ r.termTo = r.pids
                   /\ r.killTo = r.surv
                   /\ r.ret = Cardinality(r.pids)
            /\ r.st \in {"scan1", "term", "grace", "kill"} => r.ret = -1

\* a call that found two processes, lost the SIGTERM to one of them, killed
\* the survivor after the re-scan and returns 2
C14_Witness ==
    \E p \in Procs :
        /\ procs[p].st = "ret"
        /\ procs[p].pmFail
        /\ Cardinality(procs[p].pids) = 2
        /\ Cardinality(procs[p].surv) = 1
        /\ procs[p].killTo = procs[p].surv
        /\ procs[p].ret = 2

\* the option --no-kill-existing stands on the command line
NoKillGiven(cmd) == \E k \in 1..Len(cmd) : cmd[k] = "--no-kill-existing"

\* the process runs a registered pattern, in the foreground or through a spawn
StartsPattern(cmd) == cmd # WizardCmd /\ Parsed(cmd).pattern_or_cmd \in list_patterns

\* C15: a process that starts a pattern loop (typed by a user, spawned with
\* --background, spawned by the wizard's apply or re-issue) has called
\* kill_all_patterns before it opens the port unless --no-kill-existing was
\* given, and with --no-kill-existing it calls no scan and signals nobody.
C15_GuardBeforeOpen ==
    \A p \in Procs :
        StartsPattern(procs[p].cmd) =>
            /\ (~NoKillGiven(procs[p].cmd) /\ procs[p].st \in {"open", "loop"})
                   => procs[p].ret # -1
            /\ NoKillGiven(procs[p].cmd) =>
                   /\ procs[p].st \notin {"scan1", "term", "grace", "kill", "ret"}
                   /\ procs[p].termTo = {}
                   /\ procs[p].killTo = {}

\* C16: a failed process listing makes kill_all_patterns signal nobody and
\* return 0; a failed signal does not end the loop over the pids (every pid of
\* the scan is still sent the signal); no such failure ends the caller: it
\* comes back from the call and, for a pattern start, goes on to open the port.
C16_PmFailuresNonFatal ==
    \A p \in Procs :
        LET r == procs[p]
        IN  /\ (r.st = "ret" /\ r.pids = {}) =>
                   r.ret = 0 /\ r.termTo = {} /\ r.killTo = {} /\ r.surv = {}
            /\ (r.pmFail /\ r.st \in {"grace", "kill", "ret"}) => r.termTo = r.pids
            /\ (r.pmFail /\ r.st = "ret") => r.killTo = r.surv
            /\ r.st = "exited" => r.res \in {"returned", "SystemExit", "SerialException"}
            /\ (r.pmFail /\ r.st = "exited" /\ StartsPattern(r.cmd)) =>
                   r.res \in {"returned", "SerialException"}

\* a start whose SIGTERM to the first of two loops failed has still stopped
\* the second one and is running its own loop
C16_Witness ==
    /\ procs[1].st = "loop"
    /\ procs[2].st = "SIGTERM"
    /\ procs[3].st = "loop"
    /\ procs[3].pmFail
    /\ procs[3].ret = 2

PresetSelectors == 1..4

\* a breathered session whose run() has read its preset
BreatheredSet == args.prog = "breathered" /\ pc \notin {"run", "done"}

\* the tick and the <<brightness, speed>> pair preset k gives the session
FromPreset(k) ==
    /\ lv = <<PRESETS[k][2], PRESETS[k][1]>>
    /\ tick = IF args.period.t = "none" THEN PRESETS[k][3] ELSE args.period.v

\* C21: the breathing-lock pattern's preset table has exactly the keys 1..4,
\* and a speed selector outside 1..4 does not select a preset of its own: the
\* session then runs with the tick and levels of the fallback preset 1.
C21_PresetKeysOneToFour ==
    BreatheredSet =>
        /\ DOMAIN PRESETS = PresetSelectors
        /\ args.speed \notin PresetSelectors => FromPreset(1)

\* the tick of key a is strictly longer than the tick of every greater key
\* and strictly shorter than the tick of every smaller key
MonotoneAt(a) ==
    \A b \in DOMAIN PRESETS :
        /\ a < b => PRESETS[b][3] < PRESETS[a][3]
        /\ b < a => PRESETS[a][3] < PRESETS[b][3]

LoopPcs == {"clock0", "send", "wf_write", "wf_flush", "wf_sleep", "advance",
            "readclock", "sleep"}

\* C23: for stillblue, alarm and breathered, a KeyboardInterrupt raised at
\* any statement inside the loop is caught by run()'s except clause and run()
\* returns 0: no exception leaves run() towards run_pattern and setpattern
\* main.  (exc = "none" at the end: nothing further was raised while the
\* handler ran; termAt = "none": the process was not killed meanwhile.)
C23_InterruptIsCleanShutdown ==
    (args.prog \in PatternProgs /\ intrAt \in LoopPcs /\ termAt = "none") =>
        /\ pc \in {"except", "exit", "done"}
        /\ pc = "except" => exc = "KeyboardInterrupt" /\ result = "running"
        /\ pc = "exit" => exc \in {"none", "KeyboardInterrupt"}
        /\ (pc = "done" /\ exc = "none") => result = "returned"

\* a loop interrupted in its deadline sleep, after a frame, has returned 0
C23_Witness ==
    /\ args.prog \in PatternProgs
    /\ intrAt = "sleep"
    /\ sends >= 1
    /\ pc = "done"
    /\ result = "returned"

(* ------------------------- the frames of a session --------------------- *)
\* the place (1..5) of byte k of the wire within its frame
Place(k) == ((k - 1) % FRAME_LEN) + 1

\* C29: within one pattern session (stillblue, alarm, breathered) every tick
\* resends the same static frame: every byte written between the loop's
\* start and its end equals the byte at the same position of the session's
\* first frame, and the frame is the one for the session's mode with
\* brightness 5 and speed 5 for alarm and with speed 1 for stillblue.  The
\* wire only grows, so every byte is the last byte of some state: the
\* invariant compares the byte written last.
C29_StaticFrame ==
    (args.prog \in PatternProgs /\ Len(wire) > 0) =>
        /\ wire[Len(wire)] = wire[Place(Len(wire))]
        /\ frame # <<>> =>
              /\ wire[Len(wire)] = frame[Place(Len(wire))]
              /\ args.prog = "alarm" => frame = build_frame(mode, 5, 5).v
              /\ args.prog = "stillblue" => frame = build_frame(mode, args.brightness, 1).v

\* an alarm session has sent three whole frames
C29_Witness ==
    /\ args.prog = "alarm"
    /\ sends = MaxSends
    /\ Len(wire) = MaxSends * FRAME_LEN

(* ----------------------- cancellation and frames ----------------------- *)
\* the loop was cancelled: by an interrupt or by the guard's SIGTERM
Cancelled == intrAt # "none" \/ termAt # "none"

\* C28: frames are atomic under cancellation: when a pattern loop has been
\* cancelled (by an interrupt or by the guard's stop signal) and no write or
\* flush failed, the number of bytes it has written to the serial line is a
\* multiple of 5, so no frame is left half-sent.
C28_FramesAtomic ==
    (args.prog \in PatternProgs /\ Cancelled /\ failAt = NoFail) =>
        Len(wire) % FRAME_LEN = 0

(* -------------------------- inter-byte delay --------------------------- *)
\* every pacing sleep of the frame being sent lasted d ms
SleepsAre(d) == \A k \in 1..Len(trace) : trace[k].op = "sleep" => trace[k].v = d

\* C26: the inter-byte delay of the caller's line configuration is the one
\* used for every byte of every send: a one-shot send sleeps the ib_delay it
\* was given, and a pattern loop started through setpattern with a
\* -d/--delay value sleeps that value, not a hard-coded one, after each byte.
C26_CallerDelayUsed == SleepsAre(args.delay)

\* C27: within one kill_all_patterns (or _kill_running_patterns) call,
\* SIGKILL is sent only to processes that were sent SIGTERM earlier in the
\* same call: the pids of the re-scan, and so the pids force-killed, are
\* among the pids of the first scan, also when a new pattern-loop process
\* appears between the two scans.
C27_KillOnlyAfterTerm ==
    \A p \in Procs :
        /\ procs[p].surv \subseteq procs[p].pids
        /\ procs[p].killTo \subseteq procs[p].termTo

(* ------------------------------ the wizard ----------------------------- *)
\* nothing the wizard tried in its last step failed on the port or in Popen
NothingFailed ==
    \A k \in 1..Len(wiz.log) : wiz.log[k].op \notin {"frame_failed", "spawn_failed"}

\* C24: on quitting the wizard the current selection is re-issued: for every
\* selectable name, after quit either a one-shot frame for that built-in
\* (off, auto, rainbow, breathing, cycle) with the chosen brightness and
\* speed has been sent, or a pattern loop for that pattern is running.
C24_QuitReissuesSelection ==
    (wiz.pc = "done" /\ NothingFailed) =>
        IF Cur(wiz) \in BUILTINS
        THEN \E k \in 1..Len(wiz.log) :
                 wiz.log[k] = Ef("frame", Cur(wiz), wiz.bright, wiz.speed)
        ELSE Cur(wiz) \in wiz.loops

\* frames and spawns of the wizard's last step come after a
\* _kill_running_patterns() call of the same step
KillFirst ==
    \A k \in 1..Len(wiz.log) :
        wiz.log[k].op # "kill" =>
            \E j \in 1..(k - 1) : wiz.log[j].op = "kill"

\* pattern_running only while the selected name is a pattern, the one applied
FlagOnlyWhileApplied ==
    wiz.pattern_running =>
        /\ Cur(wiz) \notin BUILTINS
        /\ wiz.applied = Cur(wiz)

\* C25 as stated: along every key sequence, every one-shot frame sent and
\* every pattern spawned by the wizard is preceded, in the same key handling,
\* by a call to _kill_running_patterns, and pattern_running is true only
\* while the selected name is a pattern that was applied.
C25_KillBeforeAnySend ==
    wiz.pc # "none" => KillFirst /\ FlagOnlyWhileApplied

\* C25 (amended): while the UI runs, changing the name, Enter and o each call
\* _kill_running_patterns before they send a frame or spawn a pattern, and
\* pattern_running is true only while the selected name is a pattern that was
\* applied; the re-issue after q is not covered.
C25_KillBeforeSendInUI ==
    wiz.pc \in {"keys", "quit", "crashed"} => KillFirst /\ FlagOnlyWhileApplied

\* Enter on breathered: the kill came first, then the spawn, the flag is set
C25_Witness ==
    /\ wiz.pc = "keys"
    /\ Len(wiz.log) = 2
    /\ wiz.log[1].op = "kill"
    /\ wiz.log[2].op = "spawn" /\ wiz.log[2].name = "breathered"
    /\ wiz.pattern_running
    /\ wiz.loops = {"breathered"}

\* C30: after any sequence of key presses brightness and speed are in 1..5,
\* the field cursor is in 0..5 and the name index is a valid index of the
\* name list, so every frame the wizard sends is built from valid levels and
\* the speed passed to the breathing-lock pattern is within 1..4.
C30_WizardStateValid ==
    wiz.pc # "none" =>
        /\ wiz.bright \in 1..5 /\ wiz.speed \in 1..5
        /\ wiz.idx \in 0..5
        /\ wiz.name_idx \in 0..(Len(names) - 1)
        /\ \A k \in 1..Len(wiz.log) :
              LET e == wiz.log[k]
              IN  /\ e.op \in {"frame", "frame_failed"} =>
                        /\ e.b \in 1..5 /\ e.s \in 1..5
                        /\ build_frame(BUILTIN_MODES[e.name], e.b, e.s).ok
                  /\ (e.op \in {"spawn", "spawn_failed"} /\ e.name = "breathered") =>
                        e.s \in 1..4
                  /\ (e.op \in {"spawn", "spawn_failed"} /\ e.name \in PATTERN_ONLY_B) =>
                        e.b \in 1..5

\* speed 5 chosen, the last name of the list selected by stepping left from
\* the first, breathered once spawned with -s 4
C30_Witness ==
    /\ wiz.pc = "keys"
    /\ wiz.speed = 5
    /\ wiz.bright = 1
    /\ \E k \in 1..Len(wiz.log) : wiz.log[k] = Ef("spawn", "breathered", 0, 4)

(* --------------------------- --background ------------------------------ *)
\* the command line asks for a background start
BackgroundGiven(cmd) == \E k \in 1..Len(cmd) : cmd[k] \in {"--background", "-g"}

\* the child a background start is to leave behind: the same pattern and
\* arguments without --background / -g (and without the "--" separator)
ChildCmd(cmd) ==
    <<"python", "-m", "ledctl", "setpattern">> \o
        SelectSeq(MainArgv(cmd), LAMBDA t : t \notin {"--background", "-g", "--"})

\* C31: a --background start spawns exactly one detached child whose command
\* line contains neither --background nor -g (so the child runs the pattern
\* in the foreground and spawns no further child), all other arguments are
\* passed to the child unchanged, and the parent itself never opens the
\* serial port.
C31_BackgroundDetaches ==
    \A p \in Procs :
        (StartsPattern(procs[p].cmd) /\ BackgroundGiven(procs[p].cmd)) =>
            /\ procs[p].st \notin {"open", "loop"}
            /\ procs[p].res \in {"none", "returned"}
            /\ (procs[p].st = "exited" /\ procs[p].res = "returned") =>
                  \E q \in Procs \ {p} :
                      /\ procs[q].cmd = ChildCmd(procs[p].cmd)
                      /\ ~BackgroundGiven(procs[q].cmd)

====
